---- MODULE Spec2Model ----
(***************************************************************************)
(* Translation job of the Kodi subtitle translator (service.py):           *)
(* SubtitleTranslatorPlayer.translate_subtitle (embedded track) and        *)
(* SubtitleTranslatorPlayer.translate_external_subtitle (external file),   *)
(* with the translation backends of lib/translators.py and the progress    *)
(* sink and error journal of lib/progress_dialog.py.                       *)
(*                                                                         *)
(* A text is [id, tr, pad]: the source entry it derives from, whether it   *)
(* is in the target language, and the amount of surrounding whitespace.    *)
(* The parser and save_subtitle are modelled by their effect on the entry  *)
(* list and on the three destination files.                                *)
(***************************************************************************)
EXTENDS Integers, Sequences, FiniteSets, TLC

\* ----------------------------------------------------------------- bounds
\* Largest number of entries of an ordinary subtitle.
MaxEntries == 4

\* Number of entries of the one long subtitle (two batches of twenty).
LongSubtitle == 40

\* ------------------------------------------------------ program constants
max_consecutive_failures == 3

\* ------------------------------------------------------------------ texts
SourceText(i) == [id |-> i, tr |-> FALSE, pad |-> 0]

\* The translation a backend produces for a text.
Translated(t) == [id |-> t.id, tr |-> TRUE, pad |-> 0]

\* The same text with whitespace around it.
Padded(t) == [t EXCEPT !.pad = 1]

\* str.strip()
strip(t) == [t EXCEPT !.pad = 0]

\* The entry list SubtitleParser.parse returns for a subtitle of n entries.
ParsedEntries(n) ==
    [i \in 1..n |-> [index |-> i, start |-> 1000 * i, end |-> 1000 * i + 500,
                     text |-> SourceText(i)]]

Min(a, b) == IF a < b THEN a ELSE b

\* -------------------------------------------------------------- backends
Services == {"deepl", "openai", "libretranslate", "lingva"}

\* What happens to the HTTP request(s) of one translate_batch call.
BatchResponses ==
    {"exception", "request_error", "translated", "echo", "echo_but_last",
     "short", "long"}

PerTextResponses ==
    {"exception", "request_error", "translated", "echo", "echo_but_last"}

Raise == [raised |-> TRUE, value |-> <<>>]

Return(v) == [raised |-> FALSE, value |-> v]

\* The items of the response body of a batch request for texts.
ResponseItems(r, texts) ==
    LET m == Len(texts) IN
    CASE r = "translated" -> [j \in 1..m |-> Translated(texts[j])]
      [] r = "echo" -> [j \in 1..m |-> Padded(texts[j])]
      [] r = "echo_but_last" ->
            [j \in 1..m |-> IF j < m THEN Padded(texts[j])
                            ELSE Translated(texts[j])]
      [] r = "short" -> [j \in 1..(m - 1) |-> Translated(texts[j])]
      [] r = "long" ->
            [j \in 1..(m + 1) |-> Translated(texts[Min(j, m)])]
      [] OTHER -> <<>>

\* DeepLTranslator.translate_batch
DeepL_translate_batch(has_key, texts, r) ==
    IF ~has_key \/ r = "exception" THEN Raise
    ELSE IF r = "request_error" THEN Return(texts)
    ELSE Return(ResponseItems(r, texts))

\* translated.split('\n---SUBTITLE_BREAK---\n') of the reply to a request
\* for texts: str.split returns at least one part.
SplitReply(r, texts) ==
    IF r = "short" /\ Len(texts) = 1 THEN ResponseItems("translated", texts)
    ELSE ResponseItems(r, texts)

\* OpenAITranslator.translate_batch
OpenAI_translate_batch(has_key, texts, r) ==
    IF ~has_key \/ r = "exception" THEN Raise
    ELSE IF r = "request_error" THEN Return(texts)
    ELSE Return(SplitReply(r, texts))

\* The request outcome of the j-th text of a batch of m under r.
PerText(r, j, m) ==
    IF r = "echo_but_last" THEN (IF j < m THEN "echo" ELSE "translated")
    ELSE r

\* LibreTranslateTranslator.translate
Libre_translate(text, r) ==
    CASE r = "request_error" -> text
      [] r = "echo" -> Padded(text)
      [] OTHER -> Translated(text)

\* LingvaTranslator.translate
Lingva_translate(text, r) ==
    CASE r = "request_error" -> text
      [] r = "echo" -> Padded(text)
      [] OTHER -> Translated(text)

\* BaseTranslator.translate_batch over LibreTranslateTranslator.translate
Libre_translate_batch(texts, r) ==
    IF r = "exception" THEN Raise
    ELSE Return([j \in 1..Len(texts) |->
                    Libre_translate(texts[j], PerText(r, j, Len(texts)))])

\* BaseTranslator.translate_batch over LingvaTranslator.translate
Lingva_translate_batch(texts, r) ==
    IF r = "exception" THEN Raise
    ELSE Return([j \in 1..Len(texts) |->
                    Lingva_translate(texts[j], PerText(r, j, Len(texts)))])

\* The responses the environment can give to a call of the service.
ResponsesOf(service) ==
    IF service \in {"deepl", "openai"} THEN BatchResponses
    ELSE PerTextResponses

\* get_translator(service, config).translate_batch(texts, ...)
translate_batch(service, has_key, texts, r) ==
    CASE service = "deepl" -> DeepL_translate_batch(has_key, texts, r)
      [] service = "openai" -> OpenAI_translate_batch(has_key, texts, r)
      [] service = "lingva" -> Lingva_translate_batch(texts, r)
      [] OTHER -> Libre_translate_batch(texts, r)

\* ------------------------------------------------------------------ state
VARIABLES
    \* settings read by reload_settings
    translation_service, api_key, batch_size, fallback_services,
    show_notification, cache_translations, cache_days,
    \* the playing video: its embedded subtitle tracks (languages) and the
    \* subtitle files next to it (language tags), and the source setting
    available_subs, external_subs, source_language,
    \* SubtitleTranslatorPlayer: the number of the job it runs, and the
    \* failure counts of fallback services it keeps as attributes, one
    \* dictionary per job function
    job, _fallback_fail_counts,
    \* where each invocation of onAVStarted is
    invocations,
    translation_in_progress,
    \* SubtitleParser used on its own: the entry list given to generate, the
    \* format, and what parse returns for the generated content
    parser_input, parser_format, parser_output,
    \* MKVStreamingParser used on its own: the file, how far extract_subtitles
    \* is, the blocks it collected and the content it returns
    mkv_file, mkv_pc, _subtitle_blocks, mkv_output,
    \* BufferedReader used on its own: the reader, the file under it (the
    \* position of the file and whether it can seek) and the last call
    reader, _file, last_call,
    \* playback of the video, the job's was_playing, and the playback states
    \* in which the job called self.pause()
    playback, was_playing, pause_toggles,
    \* host: the progress dialog, the files, the subtitle the player shows
    dialog, dialog_canceled, files, loaded,
    \* TranslationProgress and ErrorReporter
    progress, progress_cancelled, progress_errors, progress_warnings,
    progress_service, progress_stage, progress_percent, journal,
    \* every record report_error was called with, and the loaded ones
    reported,
    \* locals of the running job
    pc, kind, entries, translated_entries, i, actual_service,
    successful_batches, failed_batches, consecutive_failures,
    translated_texts, fb, exc, output_content,
    \* observation of the job: the backend calls of the current batch, the
    \* result of every finished batch, whether a return of another length
    \* than the batch was accepted, and how the job ended
    batch_calls, batch_results, shape_mismatch, outcome

settings ==
    <<translation_service, api_key, batch_size, fallback_services,
      show_notification, cache_translations, cache_days>>

media == <<available_subs, external_subs, source_language>>

player == <<job, _fallback_fail_counts, invocations>>

pausing == <<playback, was_playing, pause_toggles>>

parsing == <<parser_input, parser_format, parser_output>>

\* The state of the modules of lib/ when they are used on their own.
mkv == <<mkv_file, mkv_pc, _subtitle_blocks, mkv_output>>

reading == <<reader, _file, last_call>>

library == <<parsing, mkv, reading>>

host == <<dialog, dialog_canceled, files, loaded>>

sink ==
    <<progress, progress_cancelled, progress_errors, progress_warnings,
      progress_service, progress_stage, progress_percent, journal,
      reported>>

observed == <<batch_calls, batch_results, shape_mismatch>>

counters == <<successful_batches, failed_batches, consecutive_failures>>

locals ==
    <<kind, entries, translated_entries, i, actual_service, translated_texts,
      fb, exc, output_content>>

vars ==
    <<settings, media, library, pausing, player, translation_in_progress,
      host, sink, pc, counters, locals, observed, outcome>>

\* ------------------------------------------------------- settings domains
BatchSizes == {1, 20}

FallbackSettings == {<<>>, <<"openai", "lingva">>}

PrimarySettings == {"deepl", "openai", "libretranslate"}

None == [some |-> FALSE, v |-> <<>>]

Some(x) == [some |-> TRUE, v |-> x]

\* ---------------------------------------------------------------- helpers
\* SubtitleTranslatorPlayer._service_needs_api_key
_service_needs_api_key(service) == service \in {"deepl", "openai"}

\* SubtitleTranslatorPlayer._auto_fallback_if_needed
_auto_fallback_if_needed ==
    IF _service_needs_api_key(translation_service) /\ ~api_key
    THEN "lingva" ELSE translation_service

\* The primary translator is built from get_service_config only when the
\* configured service is used; otherwise from _get_fallback_config (no key).
PrimaryHasKey == actual_service = translation_service /\ api_key

\* total_batches = (len(entries) + batch_size - 1) // batch_size
total_batches == (Len(entries) + batch_size - 1) \div batch_size

\* batch = entries[i:i + batch_size]
batch == SubSeq(entries, i + 1, Min(i + batch_size, Len(entries)))

\* texts = [e['text'] for e in batch]
texts == [j \in 1..Len(batch) |-> batch[j].text]

\* report_error keeping the first 100 records.
report_error_keep_first(j, type) ==
    LET a == Append(j, type) IN
    IF Len(a) > 100 THEN SubSeq(a, 1, 100) ELSE a

\* ErrorReporter.report_error followed by save_errors (keeps the last 100)
report_error(j, type) ==
    LET a == Append(j, type) IN
    IF Len(a) > 100 THEN SubSeq(a, Len(a) - 99, Len(a)) ELSE a

\* TranslationProgress.set_service: the service label the dialog shows.
set_service(service_display) == service_display

\* The request of the call was sent and failed (network, HTTP status).
RequestFailed(service, has_key, r) ==
    r = "request_error" /\ (_service_needs_api_key(service) => has_key)

\* The observation of one backend call.
Call(service, role, has_key, r, res) ==
    [service |-> service, role |-> role, ok |-> ~res.raised,
     request_error |-> RequestFailed(service, has_key, r),
     len |-> Len(res.value)]

\* TranslationProgress.is_cancelled
is_cancelled == IF dialog = "open" THEN dialog_canceled ELSE progress_cancelled

\* The value of progress.cancelled after set_stage or update.
CancelledAfterUpdate ==
    IF dialog = "open" /\ ~progress_cancelled THEN dialog_canceled
    ELSE progress_cancelled

\* TranslationProgress.stages: the percent of each stage.
stages ==
    [init |-> 0, extract |-> 10, parse |-> 20, translate |-> 30,
     format |-> 90, save |-> 95, complete |-> 100]

\* The percent set_stage leaves in the dialog: the stage's percent when the
\* dialog is there and `cancelled` (c) is not set, else what was shown.
set_stage(stage, c) ==
    IF dialog = "open" /\ ~c THEN stages[stage] ELSE progress_percent

\* update with the share of the finished entries taken of 100.
update_of_100(current, total, c) ==
    IF dialog = "open" /\ ~c
    THEN IF total > 0 THEN (current * 100) \div total ELSE 50
    ELSE progress_percent

\* The percent update leaves in the dialog:
\* 30 + int((current / self.total) * 60), or 50 without a total.
update(current, total, c) ==
    IF dialog = "open" /\ ~c
    THEN IF total > 0 THEN 30 + (current * 60) \div total ELSE 50
    ELSE progress_percent

\* current_count = i + len(batch)
current_count ==
    IF i + batch_size > Len(entries) THEN Len(entries) ELSE i + batch_size

\* ShouldAbort with `>` for `>=`.
ShouldAbort_off_by_one(cf) == cf > max_consecutive_failures

\* if consecutive_failures >= max_consecutive_failures: raise
ShouldAbort(cf) == cf >= max_consecutive_failures

\* MayUseOriginal with `>=` for `>`.
MayUseOriginal_always(sb) == sb >= 0

\* if successful_batches > 0: use the original texts, else raise
MayUseOriginal(sb) == sb > 0

\* SuccessRateTooLow with a threshold of a third.
SuccessRateTooLow_third(sb, tb) == IF tb > 0 THEN 3 * sb < tb ELSE TRUE

\* success_rate < 0.5, success_rate = sb / tb if tb > 0 else 0
SuccessRateTooLow(sb, tb) == IF tb > 0 THEN 2 * sb < tb ELSE TRUE

\* MergeBatch as zip(batch, translated_texts): stops at the shorter list.
MergeBatch_zip(b, tt) ==
    [j \in 1..Min(Len(b), Len(tt)) |-> [b[j] EXCEPT !.text = tt[j]]]

\* The entries appended for one batch: entry j takes translated_texts[j]
\* when j < len(translated_texts) and keeps its text otherwise.
MergeBatch(b, tt) ==
    [j \in 1..Len(b) |->
        IF j <= Len(tt) THEN [b[j] EXCEPT !.text = tt[j]] ELSE b[j]]

\* unchanged_count over zip(entries, translated_entries)
unchanged_count(es, ts) ==
    Cardinality({k \in 1..Min(Len(es), Len(ts)) :
                    strip(es[k].text) = strip(ts[k].text)})

\* NoProgress that fires only when no entry changed.
NoProgress_all(es, ts) ==
    IF Len(es) > 0 THEN unchanged_count(es, ts) >= Len(es) ELSE FALSE

\* unchanged_ratio > 0.95, unchanged_ratio = count / len(entries);
\* the float comparison agrees with 20 * count > 19 * len.
NoProgress(es, ts) ==
    IF Len(es) > 0 THEN 20 * unchanged_count(es, ts) > 19 * Len(es)
    ELSE FALSE

\* SubtitleTranslatorPlayer._make_disclaimer
_make_disclaimer ==
    << [index |-> 0, start |-> 0, end |-> 4000,
        text |-> [id |-> -1, tr |-> TRUE, pad |-> 0]],
       [index |-> 0, start |-> 4000, end |-> 7000,
        text |-> [id |-> -2, tr |-> TRUE, pad |-> 0]] >>

\* Shift the indices by the number of disclaimer entries, number the
\* disclaimer entries 1.., and put them first.
WithDisclaimer(ts) ==
    LET d == _make_disclaimer
        num_disclaimer == Len(d)
    IN  [k \in 1..Len(d) |-> [d[k] EXCEPT !.index = k]]
        \o [k \in 1..Len(ts) |->
              [ts[k] EXCEPT !.index = ts[k].index + num_disclaimer]]

\* SubtitleParser.generate: one block per entry, fields in output order.
generate(es) ==
    [k \in 1..Len(es) |-> <<es[k].index, es[k].start, es[k].end, es[k].text>>]

\* The files save_subtitle leaves behind: it writes the cache file, then the
\* metadata sidecar, then (save_alongside, in a try block) the file next to
\* the video, each directly at its final path. stop names the write that
\* fails or is interrupted, leaving that file incomplete; save_alongside is
\* the setting as of the last reload_settings, which a job reads here only.
save_subtitle(f, save_alongside, stop) ==
    IF stop = "cache" THEN [f EXCEPT !.cache = "partial"]
    ELSE IF stop = "meta"
    THEN [f EXCEPT !.cache = "complete", !.meta = "partial"]
    ELSE [f EXCEPT !.cache = "complete", !.meta = "complete", !.age = 0,
                   !.alongside = IF ~save_alongside THEN @
                                 ELSE IF stop = "alongside" THEN "partial"
                                 ELSE "complete"]

\* save_subtitle raises: only the write next to the video is in a try block.
save_raises(stop) == stop \in {"cache", "meta"}

\* _copy_to_alongside on a cache hit: copies unless the file exists; the
\* write goes directly to the final path and its failure is swallowed.
_copy_to_alongside(f, save_alongside, stop) ==
    [f EXCEPT !.alongside =
        IF save_alongside /\ @ = "absent"
        THEN (IF stop = "alongside" THEN "partial" ELSE "complete")
        ELSE @]

\* The path save_subtitle returns.
output_path(save_alongside, stop) ==
    IF save_alongside /\ stop # "alongside" THEN "alongside" ELSE "cache"

\* The write of save_subtitle or _copy_to_alongside that fails, if any.
Stops == {"none", "cache", "meta", "alongside"}

\* The writes that can fail on the storage the files are on.
PossibleStops(f) == IF f.writes = "may_fail" THEN Stops ELSE {"none"}

\* save_errors: whether the write of the error log raises.
save_errors_raises(f) == IF f.writes = "may_fail" THEN BOOLEAN ELSE {FALSE}

\* get_cached_subtitle with `>=` for `>` in the age test.
get_cached_subtitle_ge ==
    IF ~cache_translations THEN FALSE
    ELSE IF files.cache = "absent" \/ files.meta = "absent" THEN FALSE
    ELSE IF files.meta = "partial" THEN FALSE
    ELSE IF files.age >= cache_days THEN FALSE
    ELSE TRUE

\* SubtitleTranslatorPlayer.get_cached_subtitle: the entry is returned when
\* caching is on, both files exist, the sidecar parses and the entry is not
\* older than cache_days (ages in days).
get_cached_subtitle ==
    IF ~cache_translations THEN FALSE
    ELSE IF files.cache = "absent" \/ files.meta = "absent" THEN FALSE
    ELSE IF files.meta = "partial" THEN FALSE
    ELSE IF files.age > cache_days THEN FALSE
    ELSE TRUE

\* ------------------------------------------------------------------- init
\* No MKV file is being read.
NoFile ==
    [elements |-> <<>>, cues |-> <<>>, timecode_scale |-> 1000000,
     format |-> "srt", output_format |-> "srt"]

\* BufferedReader.__init__; the buffer holds the offsets of the bytes it was
\* filled with.
NewReader ==
    [_buffer |-> <<>>, _buffer_pos |-> 0, _file_pos |-> 0,
     _buffer_start |-> 0, _buffer_size |-> 2, _eof |-> FALSE]

\* The file under the reader, just opened.
Opened(seekable) == [pos |-> 0, seekable |-> seekable]

\* No call of the reader yet.
NoCall ==
    [op |-> "none", tell |-> 0, arg |-> 0, in_buffer |-> FALSE, io |-> FALSE,
     ok |-> TRUE, bytes |-> <<>>]

\* Largest number of onAVStarted invocations of one player that overlap.
MaxInvocations == 3

\* The player between two jobs: SubtitleTranslatorPlayer.__init__ and the
\* locals of a job that has not started.
InitJob ==
    /\ job = 1
    /\ mkv_pc = "none"
    /\ _subtitle_blocks = <<>>
    /\ mkv_output = <<>>
    /\ reader = NewReader
    /\ last_call = NoCall
    /\ parser_format = "none"
    /\ parser_output = <<>>
    /\ invocations = [n \in 1..MaxInvocations |-> "none"]
    /\ was_playing = FALSE
    /\ pause_toggles = <<>>
    /\ _fallback_fail_counts =
          [k \in {"embedded", "external"} |-> [s \in Services |-> 0]]
    /\ translation_in_progress = FALSE
    /\ dialog = "none"
    /\ dialog_canceled = FALSE
    /\ loaded = "none"
    /\ progress = FALSE
    /\ progress_cancelled = FALSE
    /\ progress_errors = 0
    /\ progress_warnings = 0
    /\ pc = "idle"
    /\ kind = "none"
    /\ entries = <<>>
    /\ translated_entries = <<>>
    /\ i = 0
    /\ actual_service = "none"
    /\ successful_batches = 0
    /\ failed_batches = 0
    /\ consecutive_failures = 0
    /\ translated_texts = None
    /\ fb = 0
    /\ exc = "none"
    /\ output_content = <<>>
    /\ progress_service = "none"
    /\ progress_stage = "init"
    /\ progress_percent = 0
    /\ batch_calls = <<>>
    /\ batch_results = <<>>
    /\ shape_mismatch = FALSE
    /\ outcome = "none"

\* ErrorReporter.__init__ without an error log to load, and InitJob.
InitIdle ==
    /\ journal = <<>>
    /\ reported = <<>>
    /\ InitJob

Init ==
    /\ translation_service \in PrimarySettings
    /\ api_key \in BOOLEAN
    /\ (translation_service = "libretranslate" => ~api_key)
    /\ batch_size \in BatchSizes
    /\ fallback_services \in FallbackSettings
    /\ show_notification \in BOOLEAN
    /\ cache_translations = TRUE
    /\ cache_days = 1
    /\ available_subs = <<>>
    /\ external_subs = <<>>
    /\ source_language = "auto"
    /\ files \in {[cache |-> c, meta |-> c, alongside |-> "absent",
                    age |-> 0, writes |-> "ok"] : c \in {"absent", "earlier"}}
    /\ playback = "playing"
    /\ parser_input = <<>>
    /\ mkv_file = NoFile
    /\ _file = Opened(TRUE)
    /\ InitIdle

\* Largest age, in days, of a cache entry.
MaxAge == 3

\* The values of the cache_days setting.
CacheDays == {1, 2}

\* The cache directory before a job: no entry, an entry of some age, an
\* entry whose sidecar is missing or unreadable; on storage on which a
\* write can fail or be interrupted, or not.
CacheStates ==
    {[cache |-> "absent", meta |-> "absent", alongside |-> "absent",
      age |-> 0, writes |-> w] : w \in {"ok", "may_fail"}}
    \cup {[cache |-> "earlier", meta |-> m, alongside |-> "absent",
           age |-> a, writes |-> "ok"] :
              m \in {"earlier", "absent", "partial"}, a \in 0..MaxAge}

\* One job of a player with the DeepL service, over every cache setting and
\* cache state.
InitCache ==
    /\ translation_service = "deepl"
    /\ api_key = TRUE
    /\ batch_size = 20
    /\ fallback_services = <<"openai", "lingva">>
    /\ show_notification = TRUE
    /\ cache_translations \in BOOLEAN
    /\ cache_days \in CacheDays
    /\ files \in CacheStates
    /\ available_subs = <<>>
    /\ external_subs = <<>>
    /\ source_language = "auto"
    /\ playback = "playing"
    /\ parser_input = <<>>
    /\ mkv_file = NoFile
    /\ _file = Opened(TRUE)
    /\ InitIdle

\* ---------------------------------------------------------------- actions
\* cached_path and xbmcvfs.exists(cached_path)
cache_hit == get_cached_subtitle /\ files.cache # "absent"

\* translate_subtitle / translate_external_subtitle up to the cache check:
\* a hit copies the file alongside the video when that is enabled, loads the
\* cached file and returns.
Begin(k, save_alongside, stop) ==
    /\ pc = "idle"
    /\ stop \in PossibleStops(files)
    /\ kind' = k
    /\ translation_in_progress' = TRUE
    /\ IF cache_hit
       THEN /\ files' = _copy_to_alongside(files, save_alongside, stop)
            /\ loaded' = "cache"
            /\ outcome' = "Done"
            /\ pc' = "finally"
       ELSE /\ pc' = IF k = "embedded" THEN "ffmpeg" ELSE "start"
            /\ UNCHANGED <<files, loaded, outcome>>
    /\ UNCHANGED <<settings, media, library, pausing, player, dialog, dialog_canceled, sink, counters,
                   entries, translated_entries, i, actual_service,
                   translated_texts, fb, exc, output_content, observed>>

\* _ensure_ffmpeg_available: None when the user cancels the setup.
EnsureFfmpeg(found) ==
    /\ pc = "ffmpeg"
    /\ IF found
       THEN pc' = "start" /\ UNCHANGED outcome
       ELSE pc' = "finally" /\ outcome' = "NoFFmpeg"
    /\ UNCHANGED <<settings, media, library, pausing, player, translation_in_progress, host, sink, counters,
                   locals, observed>>

\* xbmc.Player.isPlaying(): a file is being played, paused or not.
isPlaying == playback # "stopped"

\* xbmc.Player.pause(): toggles between playing and paused.
pause(p) ==
    IF p = "playing" THEN "paused" ELSE IF p = "paused" THEN "playing" ELSE p

\* finally: if was_playing and Player.Paused, self.pause()
ResumePlayback ==
    IF was_playing /\ playback = "paused"
    THEN /\ playback' = pause(playback)
         /\ pause_toggles' = Append(pause_toggles, playback)
         /\ UNCHANGED was_playing
    ELSE UNCHANGED pausing

\* `if self.isPlaying(): was_playing = True; self.pause()`, then
\* TranslationProgress(...).start(), set_stage('extract') and the extraction
\* (SubtitleExtractor.extract or read_external_subtitle).
Extract(content_ok) ==
    /\ pc = "start"
    /\ was_playing' = isPlaying
    /\ playback' = IF isPlaying THEN pause(playback) ELSE playback
    /\ pause_toggles' = IF isPlaying THEN Append(pause_toggles, playback)
                        ELSE pause_toggles
    /\ progress' = TRUE
    /\ dialog' = IF show_notification THEN "open" ELSE "none"
    /\ progress_stage' = "extract"
    /\ progress_percent' = IF show_notification THEN stages["extract"]
                           ELSE progress_percent
    /\ IF content_ok
       THEN /\ pc' = "parse"
            /\ UNCHANGED <<journal, reported, exc>>
       ELSE /\ journal' = report_error(journal,
                              IF kind = "embedded" THEN "ffmpeg" ELSE "file")
            /\ reported' = Append(reported,
                              IF kind = "embedded" THEN "ffmpeg" ELSE "file")
            /\ \E raised \in save_errors_raises(files) :
                  exc' = IF raised THEN "journal" ELSE "extract"
            /\ pc' = "except"
    /\ UNCHANGED <<settings, media, library, player, translation_in_progress,
                   dialog_canceled, files, loaded, progress_cancelled, progress_errors,
                   progress_warnings, progress_service, counters, kind,
                   entries, translated_entries, i, actual_service,
                   translated_texts, fb, output_content, observed, outcome>>

\* The entry counts of the subtitles the job is run on (0: nothing parsed).
EntryCounts ==
    (0..MaxEntries) \cup (IF batch_size > 1 THEN {LongSubtitle} ELSE {})

\* set_stage('parse'), SubtitleParser.parse, the cancellation check before
\* the translate stage and the set-up of the batch loop.
Parse(n) ==
    /\ pc = "parse"
    /\ n \in EntryCounts
    /\ IF n = 0
       THEN /\ journal' = report_error(journal, "parse")
            /\ reported' = Append(reported, "parse")
            /\ \E raised \in save_errors_raises(files) :
                  exc' = IF raised THEN "journal" ELSE "parse"
            /\ pc' = "except"
            /\ progress_cancelled' = CancelledAfterUpdate
            /\ progress_stage' = "parse"
            /\ progress_percent' = set_stage("parse", progress_cancelled)
            /\ UNCHANGED <<entries, actual_service, progress_service,
                           outcome>>
       ELSE /\ entries' = ParsedEntries(n)
            /\ progress_cancelled' = is_cancelled
            /\ UNCHANGED <<journal, reported, exc>>
            /\ IF is_cancelled
               THEN /\ pc' = "finally"
                    /\ outcome' = "Cancelled"
                    /\ progress_stage' = "parse"
                    /\ progress_percent' =
                          set_stage("parse", progress_cancelled)
                    /\ UNCHANGED <<actual_service, progress_service>>
               ELSE /\ actual_service' = _auto_fallback_if_needed
                    /\ progress_service' =
                          IF kind = "embedded"
                          THEN set_service(_auto_fallback_if_needed)
                          ELSE progress_service
                    /\ progress_stage' = "translate"
                    /\ progress_percent' =
                          IF dialog = "open" THEN stages["translate"]
                          ELSE set_stage("parse", progress_cancelled)
                    /\ pc' = "loop"
                    /\ UNCHANGED outcome
    /\ UNCHANGED <<settings, media, library, pausing, player, translation_in_progress, host, progress,
                   progress_errors, progress_warnings, counters, kind,
                   translated_entries, i, translated_texts, fb,
                   output_content, observed>>

\* Head of the batch loop: the loop ends, or the job returns when cancelled,
\* or the next batch is prepared and progress.update is called.
LoopHead ==
    /\ pc = "loop"
    /\ IF i >= Len(entries)
       THEN /\ pc' = "success_rate"
            /\ UNCHANGED <<progress_cancelled, progress_percent,
                           translated_texts, batch_calls, outcome>>
       ELSE /\ progress_cancelled' = is_cancelled
            /\ IF is_cancelled
               THEN /\ pc' = "finally"
                    /\ outcome' = "Cancelled"
                    /\ UNCHANGED <<progress_percent, translated_texts,
                                   batch_calls>>
               ELSE /\ pc' = "primary"
                    /\ progress_percent' =
                          update(current_count, Len(entries), FALSE)
                    /\ translated_texts' = None
                    /\ batch_calls' = <<>>
                    /\ UNCHANGED outcome
    /\ UNCHANGED <<settings, media, library, pausing, player, translation_in_progress, host, progress,
                   progress_errors, progress_warnings, progress_service,
                   progress_stage, journal, reported, counters, kind, entries,
                   translated_entries, i, actual_service, fb, exc,
                   output_content, batch_results, shape_mismatch>>

\* NextFallback without the skip of the configured service.
NextFallback_no_skip(k) == k

\* The first index from k on of a fallback service that is not skipped
\* (`if fallback_service == self.translation_service: continue`).
RECURSIVE NextFallback(_)
NextFallback(k) ==
    IF k > Len(fallback_services) THEN k
    ELSE IF fallback_services[k] = translation_service
         THEN NextFallback(k + 1)
    ELSE k

\* The effect of one translate_batch call in the try blocks of the loop: a
\* return is taken as the batch's texts and counted as a success, an
\* exception moves on to the fallback service of index nf, if there is one.
AfterCall(res, nf) ==
    IF ~res.raised
    THEN /\ translated_texts' = Some(res.value)
         /\ successful_batches' = successful_batches + 1
         /\ consecutive_failures' = 0
         /\ shape_mismatch' = (shape_mismatch \/ Len(res.value) # Len(texts))
         /\ pc' = "finish_batch"
         /\ UNCHANGED fb
    ELSE /\ fb' = nf
         /\ pc' = IF nf > Len(fallback_services) THEN "finish_batch"
                  ELSE "fallback"
         /\ UNCHANGED <<translated_texts, successful_batches,
                        consecutive_failures, shape_mismatch>>

\* try: translator.translate_batch(texts, ...) on the primary translator.
Primary(r) ==
    /\ pc = "primary"
    /\ r \in ResponsesOf(actual_service)
    /\ LET res == translate_batch(actual_service, PrimaryHasKey, texts, r)
       IN  /\ batch_calls' =
                 Append(batch_calls,
                        Call(actual_service, "primary", PrimaryHasKey, r, res))
           /\ AfterCall(res, NextFallback(1))
    /\ UNCHANGED <<settings, media, library, pausing, player, translation_in_progress, host, sink,
                   failed_batches, kind, entries, translated_entries, i,
                   actual_service, exc, output_content, batch_results,
                   outcome>>

\* One iteration of `for fallback_service in fallback_services` that calls
\* a translator built from the fallback configuration (no API key).
Fallback(r) ==
    /\ pc = "fallback"
    /\ r \in ResponsesOf(fallback_services[fb])
    /\ LET svc == fallback_services[fb]
           res == translate_batch(svc, FALSE, texts, r)
       IN  /\ batch_calls' =
                 Append(batch_calls, Call(svc, "fallback", FALSE, r, res))
           /\ AfterCall(res, NextFallback(fb + 1))
           /\ _fallback_fail_counts' =
                 IF res.raised
                 THEN [_fallback_fail_counts EXCEPT ![kind][svc] = @ + 1]
                 ELSE _fallback_fail_counts
    /\ progress_cancelled' = CancelledAfterUpdate
    /\ progress_percent' =
          update(current_count, Len(entries), progress_cancelled)
    /\ UNCHANGED <<settings, media, library, pausing, job, invocations,
                   translation_in_progress, host, progress,
                   progress_errors, progress_warnings, progress_service,
                   progress_stage, journal, reported, failed_batches, kind, entries,
                   translated_entries, i, actual_service, exc,
                   output_content, batch_results, outcome>>

\* A call of the batch returned.
BatchOk == \E k \in 1..Len(batch_calls) : batch_calls[k].ok

\* After the translators: a batch without texts counts as failed and either
\* aborts the job or is filled with the original texts; then the batch is
\* appended to translated_entries.
FinishBatch ==
    /\ pc = "finish_batch"
    /\ batch_results' = Append(batch_results, BatchOk)
    /\ IF ~translated_texts.some
       THEN /\ failed_batches' = failed_batches + 1
            /\ consecutive_failures' = consecutive_failures + 1
            /\ journal' = report_error(journal, "api")
            /\ reported' = Append(reported, "api")
            /\ \E raised \in save_errors_raises(files) :
               IF raised
               THEN /\ exc' = "journal"
                    /\ pc' = "except"
                    /\ UNCHANGED <<progress_warnings, translated_texts,
                                   translated_entries, i>>
               ELSE IF ShouldAbort(consecutive_failures + 1)
               THEN /\ exc' = "aborted"
                    /\ pc' = "except"
                    /\ UNCHANGED <<progress_warnings, translated_texts,
                                   translated_entries, i>>
               ELSE IF MayUseOriginal(successful_batches)
               THEN /\ progress_warnings' = progress_warnings + 1
                    /\ translated_texts' = Some(texts)
                    /\ translated_entries' =
                          translated_entries \o MergeBatch(batch, texts)
                    /\ i' = i + batch_size
                    /\ pc' = "loop"
                    /\ UNCHANGED exc
               ELSE /\ exc' = "unavailable"
                    /\ pc' = "except"
                    /\ UNCHANGED <<progress_warnings, translated_texts,
                                   translated_entries, i>>
       ELSE /\ translated_entries' =
                  translated_entries \o MergeBatch(batch, translated_texts.v)
            /\ i' = i + batch_size
            /\ pc' = "loop"
            /\ UNCHANGED <<failed_batches, consecutive_failures, journal,
                           reported, progress_warnings, translated_texts,
                           exc>>
    /\ UNCHANGED <<settings, media, library, pausing, player, translation_in_progress, host, progress,
                   progress_cancelled, progress_errors, progress_service,
                   progress_stage, progress_percent, successful_batches,
                   kind, entries, actual_service, fb,
                   output_content, batch_calls, shape_mismatch, outcome>>

\* After the loop: the success-rate check and the check that the texts
\* changed, which only translate_subtitle has.
CheckResult ==
    /\ pc = "success_rate"
    /\ IF SuccessRateTooLow(successful_batches, total_batches)
       THEN exc' = "success_rate" /\ pc' = "except"
       ELSE IF kind = "embedded" /\ NoProgress(entries, translated_entries)
       THEN exc' = "no_progress" /\ pc' = "except"
       ELSE pc' = "format" /\ UNCHANGED exc
    /\ UNCHANGED <<settings, media, library, pausing, player, translation_in_progress, host, sink, counters,
                   kind, entries, translated_entries, i, actual_service,
                   translated_texts, fb, output_content, observed, outcome>>

\* set_stage('format'), the disclaimer entries and SubtitleParser.generate.
Format ==
    /\ pc = "format"
    /\ translated_entries' = WithDisclaimer(translated_entries)
    /\ output_content' = generate(WithDisclaimer(translated_entries))
    /\ progress_cancelled' = CancelledAfterUpdate
    /\ progress_stage' = "format"
    /\ progress_percent' = set_stage("format", progress_cancelled)
    /\ pc' = "save"
    /\ UNCHANGED <<settings, media, library, pausing, player, translation_in_progress, host, progress,
                   progress_errors, progress_warnings, progress_service,
                   journal, reported, counters, kind, entries, i, actual_service,
                   translated_texts, fb, exc, observed, outcome>>

\* set_stage('save'), save_subtitle, load_subtitle and progress.complete;
\* an exception of save_subtitle goes to the except block.
SaveAndLoad(save_alongside, stop) ==
    /\ pc = "save"
    /\ stop \in PossibleStops(files)
    /\ files' = save_subtitle(files, save_alongside, stop)
    /\ progress_cancelled' = CancelledAfterUpdate
    /\ IF save_raises(stop)
       THEN /\ exc' = "save"
            /\ pc' = "except"
            /\ progress_stage' = "save"
            /\ progress_percent' = set_stage("save", progress_cancelled)
            /\ UNCHANGED <<loaded, dialog, outcome>>
       ELSE /\ loaded' = output_path(save_alongside, stop)
            /\ progress_stage' = "complete"
            /\ progress_percent' =
                  IF CancelledAfterUpdate
                  THEN set_stage("save", progress_cancelled)
                  ELSE set_stage("complete", FALSE)
            /\ dialog' = IF dialog = "open" THEN "closed" ELSE dialog
            /\ outcome' = "Done"
            /\ pc' = "finally"
            /\ UNCHANGED exc
    /\ UNCHANGED <<settings, media, library, pausing, player, translation_in_progress, dialog_canceled,
                   progress, progress_errors, progress_warnings,
                   progress_service, journal, reported, counters, kind, entries,
                   translated_entries, i, actual_service, translated_texts,
                   fb, output_content, observed>>

\* except Exception: the journal record, progress.add_error and
\* progress.complete(False).
Except ==
    /\ pc = "except"
    /\ journal' = report_error(journal, "translation")
    /\ reported' = Append(reported, "translation")
    /\ \E raised \in save_errors_raises(files) :
          IF raised
          THEN UNCHANGED <<progress_errors, dialog>>
          ELSE /\ progress_errors' = IF progress THEN progress_errors + 1
                                     ELSE progress_errors
               /\ dialog' = IF dialog = "open" THEN "closed" ELSE dialog
    /\ outcome' = "Failed"
    /\ pc' = "finally"
    /\ UNCHANGED <<settings, media, library, pausing, player, translation_in_progress, dialog_canceled, files,
                   loaded, progress, progress_cancelled, progress_warnings,
                   progress_service, progress_stage, progress_percent,
                   counters, locals, observed>>

\* Finally without the reset of translation_in_progress.
Finally_keeps_flag ==
    /\ pc = "finally"
    /\ pc' = "returned"
    /\ ResumePlayback
    /\ UNCHANGED <<settings, media, library, player, translation_in_progress, host,
                   sink, counters, locals, observed, outcome>>

\* finally: translation_in_progress = False, and the resume of playback
Finally ==
    /\ pc = "finally"
    /\ translation_in_progress' = FALSE
    /\ pc' = "returned"
    /\ ResumePlayback
    /\ UNCHANGED <<settings, media, library, player, host, sink, counters, locals,
                   observed, outcome>>

\* The user presses Cancel in the progress dialog.
UserCancel ==
    /\ dialog = "open"
    /\ ~dialog_canceled
    /\ dialog_canceled' = TRUE
    /\ UNCHANGED <<settings, media, library, pausing, player, translation_in_progress, dialog, files, loaded,
                   sink, pc, counters, locals, observed, outcome>>

Next ==
    \/ \E k \in {"embedded", "external"}, save_alongside \in BOOLEAN,
          stop \in {"none", "alongside"} :
          Begin(k, save_alongside, stop)
    \/ \E found \in BOOLEAN : EnsureFfmpeg(found)
    \/ \E content_ok \in BOOLEAN : Extract(content_ok)
    \/ \E n \in 0..LongSubtitle : Parse(n)
    \/ LoopHead
    \/ \E r \in BatchResponses : Primary(r)
    \/ \E r \in BatchResponses : Fallback(r)
    \/ FinishBatch
    \/ CheckResult
    \/ Format
    \/ \E save_alongside \in BOOLEAN, stop \in Stops :
          SaveAndLoad(save_alongside, stop)
    \/ Except
    \/ Finally
    \/ UserCancel

\* --------------------------------------------- check_and_translate_subtitles
\* The target_language setting.
target_language == "sv"

\* The language codes of embedded tracks.
TrackLangs == {"sv_SE", "eng", "de"}

\* The language tags of subtitle files next to the video.
ExternalTags == {"swe", "en", "untagged"}

\* Largest number of embedded subtitle tracks.
MaxTracks == 2

\* lower(), '-' to '_', the part before '_', three characters, MAP
Norm(lang) ==
    CASE lang = "eng" -> "en"
      [] lang = "sv_SE" -> "sv"
      [] lang = "swe" -> "sv"
      [] OTHER -> lang

\* SubtitleTranslatorPlayer._lang_match
_lang_match(lang_a, lang_b) == Norm(lang_a) = Norm(lang_b)

\* The index of the first track of subtitles whose language matches lang,
\* 0 if none (`for sub in subtitles: if self._lang_match(...): return sub`).
FirstMatch(subtitles, lang) ==
    IF \E k \in 1..Len(subtitles) : _lang_match(subtitles[k], lang)
    THEN CHOOSE k \in 1..Len(subtitles) :
            /\ _lang_match(subtitles[k], lang)
            /\ \A j \in 1..(k - 1) : ~_lang_match(subtitles[j], lang)
    ELSE 0

\* find_source_subtitle without the English pass.
find_source_subtitle_no_english(subtitles) ==
    LET src == FirstMatch(subtitles, source_language)
    IN  IF source_language # "auto" /\ src # 0 THEN src
        ELSE IF subtitles # <<>> THEN 1
        ELSE 0

\* SubtitleTranslatorPlayer.find_source_subtitle: the index of the track it
\* returns, 0 for None.
find_source_subtitle(subtitles) ==
    LET src == FirstMatch(subtitles, source_language)
        eng == FirstMatch(subtitles, "en")
    IN  IF source_language # "auto" /\ src # 0 THEN src
        ELSE IF eng # 0 THEN eng
        ELSE IF subtitles # <<>> THEN 1
        ELSE 0

\* _get_language_variants(lang_code)
_get_language_variants(lang_code) ==
    CASE Norm(lang_code) = "sv" -> {"sv", "swe", "swedish"}
      [] Norm(lang_code) = "en" -> {"en", "eng", "english"}
      [] Norm(lang_code) = "de" -> {"de", "deu", "ger", "german"}
      [] OTHER -> {lang_code}

\* find_external_subtitle_for_language(lang_code): a file was found.
find_external_subtitle_for_language(lang_code) ==
    \E k \in 1..Len(external_subs) :
        external_subs[k] \in _get_language_variants(lang_code)

\* find_external_subtitle(source_lang): a tagged match, else an untagged
\* file, else the first file; a file is found whenever there is one.
find_external_subtitle == external_subs # <<>>

\* any(_lang_match(sub.language, target_language) for sub in available_subs)
target_in_embedded ==
    \E k \in 1..Len(available_subs) :
        _lang_match(available_subs[k], target_language)

\* The answers of show_subtitle_source_dialog.
Choices == {"embedded", "external", "browse", "cancel"}

\* The source check_and_translate_subtitles settles on: "embedded",
\* "external" (a file next to the video or a browsed file) or "none".
subtitle_source(choice, browsed, ask, confirmed) ==
    LET source_sub == find_source_subtitle(available_subs) # 0
        external_sub_path == find_external_subtitle
    IN  IF source_sub /\ external_sub_path
        THEN CASE choice = "embedded" -> "embedded"
               [] choice = "external" -> "external"
               [] choice = "browse" -> IF browsed THEN "external" ELSE "none"
               [] OTHER -> "none"
        ELSE IF source_sub
        THEN IF ask /\ ~confirmed THEN "none" ELSE "embedded"
        ELSE IF external_sub_path
        THEN IF ask /\ ~confirmed THEN "none" ELSE "external"
        ELSE IF choice = "browse" /\ browsed THEN "external" ELSE "none"

\* check_and_translate_subtitles: returns when the target language is among
\* the embedded tracks, loads the external file in the target language
\* when there is one, and otherwise settles on a source and calls
\* translate_subtitle or translate_external_subtitle.
check_and_translate_subtitles(choice, browsed, ask, confirmed, save_alongside, stop) ==
    /\ pc = "idle"
    /\ ~translation_in_progress
    /\ IF target_in_embedded
       THEN /\ pc' = "returned"
            /\ outcome' = "Skipped"
            /\ UNCHANGED <<settings, media, library, pausing, player, translation_in_progress, host,
                           sink, counters, locals, observed>>
       ELSE IF find_external_subtitle_for_language(target_language)
       THEN /\ loaded' = "external_target"
            /\ pc' = "returned"
            /\ outcome' = "Skipped"
            /\ UNCHANGED <<settings, media, library, pausing, player, translation_in_progress, dialog,
                           dialog_canceled, files, sink, counters, locals,
                           observed>>
       ELSE IF subtitle_source(choice, browsed, ask, confirmed) = "none"
       THEN /\ pc' = "returned"
            /\ outcome' = "Skipped"
            /\ UNCHANGED <<settings, media, library, pausing, player, translation_in_progress, host,
                           sink, counters, locals, observed>>
       ELSE Begin(subtitle_source(choice, browsed, ask, confirmed),
                  save_alongside, stop)

\* The steps of a running job.
JobStep ==
    \/ \E found \in BOOLEAN : EnsureFfmpeg(found)
    \/ \E content_ok \in BOOLEAN : Extract(content_ok)
    \/ \E n \in 0..LongSubtitle : Parse(n)
    \/ LoopHead
    \/ \E r \in BatchResponses : Primary(r)
    \/ \E r \in BatchResponses : Fallback(r)
    \/ FinishBatch
    \/ CheckResult
    \/ Format
    \/ \E save_alongside \in BOOLEAN, stop \in Stops :
          SaveAndLoad(save_alongside, stop)
    \/ Except
    \/ Finally
    \/ UserCancel

\* Playback of a video starts (onAVStarted) and the job it leads to.
NextCheck ==
    \/ \E choice \in Choices, browsed, ask, confirmed \in BOOLEAN,
          save_alongside \in BOOLEAN, stop \in {"none", "alongside"} :
          check_and_translate_subtitles(choice, browsed, ask, confirmed,
                                        save_alongside, stop)
    \/ JobStep

\* The track lists of a video.
TrackLists == UNION {[1..n -> TrackLangs] : n \in 0..MaxTracks}

\* The subtitle files next to a video.
ExternalLists == {<<>>} \cup {<<t>> : t \in ExternalTags}

\* A player with an empty cache over every video and source setting.
InitCheck ==
    /\ translation_service = "deepl"
    /\ api_key = TRUE
    /\ batch_size = 20
    /\ fallback_services = <<"openai", "lingva">>
    /\ show_notification = TRUE
    /\ cache_translations = TRUE
    /\ cache_days = 1
    /\ files = [cache |-> "absent", meta |-> "absent", alongside |-> "absent",
                age |-> 0, writes |-> "ok"]
    /\ available_subs \in TrackLists
    /\ external_subs \in ExternalLists
    /\ source_language \in {"auto", "de"}
    /\ playback = "playing"
    /\ parser_input = <<>>
    /\ mkv_file = NoFile
    /\ _file = Opened(TRUE)
    /\ InitIdle

\* ------------------------------------------------------ a player's jobs
\* Largest number of jobs of one player.
MaxJobs == 2

\* Playback of another video starts after a job has returned: the job's
\* locals and its TranslationProgress are gone, the new video has no cache
\* entry; the player's attributes and the error journal stay.
NextJob ==
    /\ pc = "returned"
    /\ job < MaxJobs
    /\ job' = job + 1
    /\ pc' = "idle"
    /\ files' = [cache |-> "absent", meta |-> "absent", alongside |-> "absent",
                 age |-> 0, writes |-> files.writes]
    /\ loaded' = "none"
    /\ dialog' = "none"
    /\ dialog_canceled' = FALSE
    /\ progress' = FALSE
    /\ progress_cancelled' = FALSE
    /\ progress_errors' = 0
    /\ progress_warnings' = 0
    /\ progress_service' = "none"
    /\ progress_stage' = "init"
    /\ progress_percent' = 0
    /\ kind' = "none"
    /\ entries' = <<>>
    /\ translated_entries' = <<>>
    /\ i' = 0
    /\ actual_service' = "none"
    /\ successful_batches' = 0
    /\ failed_batches' = 0
    /\ consecutive_failures' = 0
    /\ translated_texts' = None
    /\ fb' = 0
    /\ exc' = "none"
    /\ output_content' = <<>>
    /\ batch_calls' = <<>>
    /\ batch_results' = <<>>
    /\ shape_mismatch' = FALSE
    /\ outcome' = "none"
    /\ playback' = "playing"
    /\ was_playing' = FALSE
    /\ pause_toggles' = <<>>
    /\ UNCHANGED <<settings, media, library, _fallback_fail_counts, invocations,
                   translation_in_progress, journal, reported>>

NextPlayer == Next \/ NextJob

\* A player with the DeepL service and two fallback services.
InitPlayer ==
    /\ translation_service = "deepl"
    /\ api_key = TRUE
    /\ batch_size = 20
    /\ fallback_services = <<"openai", "lingva">>
    /\ show_notification = TRUE
    /\ cache_translations = TRUE
    /\ cache_days = 1
    /\ files = [cache |-> "absent", meta |-> "absent", alongside |-> "absent",
                age |-> 0, writes |-> "ok"]
    /\ available_subs = <<>>
    /\ external_subs = <<>>
    /\ source_language = "auto"
    /\ playback = "playing"
    /\ parser_input = <<>>
    /\ mkv_file = NoFile
    /\ _file = Opened(TRUE)
    /\ InitIdle

Spec == Init /\ [][Next]_vars

SpecCache == InitCache /\ [][Next]_vars

SpecCheck == InitCheck /\ [][NextCheck]_vars

SpecPlayer == InitPlayer /\ [][NextPlayer]_vars

\* ------------------------------------------------- observations of a job
\* The number of successful batches among the finished ones.
OkCount(rs) == Cardinality({k \in 1..Len(rs) : rs[k]})

\* The number of failed batches at the end of rs.
RECURSIVE TrailingFailures(_)
TrailingFailures(rs) ==
    IF rs = <<>> \/ rs[Len(rs)] THEN 0
    ELSE 1 + TrailingFailures(SubSeq(rs, 1, Len(rs) - 1))

\* The batch loop ran over all entries.
LoopCompleted ==
    /\ entries # <<>>
    /\ i >= Len(entries)
    /\ Len(translated_entries) >= Len(entries)

\* The translated entry of source entry k (the disclaimer entries, once
\* added, come first).
TranslatedOf(k) ==
    translated_entries[k + (Len(translated_entries) - Len(entries))]

\* Two texts are equal after trimming.
SameAfterTrim(a, b) == a.id = b.id /\ a.tr = b.tr

\* The number of entries whose translation equals the source after trimming.
JobUnchanged ==
    Cardinality({k \in 1..Len(entries) :
                    SameAfterTrim(entries[k].text, TranslatedOf(k).text)})

\* The job neither goes on to format and save, nor has published anything.
NotPublishing ==
    /\ pc \in {"loop", "success_rate", "except", "finally", "returned"}
    /\ files.cache # "complete"
    /\ files.meta # "complete"
    /\ files.alongside # "complete"
    /\ loaded = "none"
    /\ outcome # "Done"

\* The fallback services that are not skipped, in the configured order.
EligibleFallbacks ==
    SelectSeq(fallback_services, LAMBDA s : s # translation_service)

\* ----------------------------------------------------------------- claims
\* C1: a batch fails exactly when the primary and every fallback that is
\* not skipped failed for it; the consecutive-failure counter is the number
\* of failed batches since the last successful one (a success resets it to
\* 0); once 3 consecutive batches have failed the job is on its failure
\* path, calls no backend again, never saves and ends Failed.
C1_ConsecutiveAbort ==
    /\ pc = "finish_batch" =>
          /\ translated_texts.some = BatchOk
          /\ ~BatchOk => Len(batch_calls) = 1 + Len(EligibleFallbacks)
    /\ consecutive_failures =
          IF pc = "finish_batch" /\ BatchOk THEN 0
          ELSE TrailingFailures(batch_results)
    /\ TrailingFailures(batch_results) >= 3 =>
          /\ pc \in {"except", "finally", "returned"}
          /\ files.cache # "complete"
          /\ loaded = "none"
          /\ pc # "except" => outcome = "Failed"

C1_Witness ==
    /\ pc = "returned"
    /\ TrailingFailures(batch_results) = 3
    /\ OkCount(batch_results) > 0
    /\ outcome = "Failed"

\* C2: a batch all backends failed for is filled with its original texts,
\* with a warning, and the job goes on to the next batch exactly when an
\* earlier batch succeeded and fewer than 3 consecutive batches have failed;
\* otherwise (in particular when no batch has succeeded yet) the job fails.
C2_PartialTolerance ==
    [][ /\ (pc = "finish_batch" /\ pc' # "finish_batch" /\ ~BatchOk) =>
             IF OkCount(batch_results) > 0
                /\ TrailingFailures(batch_results) + 1 < 3
             THEN /\ pc' = "loop"
                  /\ progress_warnings' = progress_warnings + 1
                  /\ translated_entries' = translated_entries \o batch
                  /\ i' = i + batch_size
             ELSE /\ pc' = "except"
                  /\ translated_entries' = translated_entries
                  /\ progress_warnings' = progress_warnings
        /\ (pc = "except" /\ pc' # "except") => outcome' = "Failed"
      ]_vars

C2_Witness ==
    /\ pc = "loop"
    /\ progress_warnings > 0
    /\ batch_results # <<>>
    /\ ~batch_results[Len(batch_results)]
    /\ translated_entries[Len(translated_entries)].text
          = entries[Len(translated_entries)].text

\* C3: when the loop has run over all batches and fewer than half of them
\* succeeded, the job fails without saving or loading anything; every job
\* that ends Done has successful_batches * 2 >= total_batches.
C3_SuccessRate ==
    /\ (LoopCompleted /\ 2 * OkCount(batch_results) < Len(batch_results)) =>
          /\ NotPublishing
          /\ pc \in {"finally", "returned"} => outcome = "Failed"
    /\ outcome = "Done" =>
          /\ 2 * successful_batches >= total_batches
          /\ 2 * OkCount(batch_results) >= Len(batch_results)
          /\ Len(batch_results) = total_batches

C3_Witness ==
    /\ pc = "returned"
    /\ exc = "success_rate"
    /\ outcome = "Failed"
    /\ LoopCompleted

\* C4 as stated: in translate_subtitle, when at least 95% of the entries
\* equal their source after trimming, the job fails and nothing is saved.
C4_AtLeast95 ==
    (kind = "embedded" /\ LoopCompleted
        /\ 20 * JobUnchanged >= 19 * Len(entries)) => NotPublishing

\* C4 amended: in a translate_subtitle job that passed the success-rate
\* check, when more than 95% of the entries equal their source after
\* trimming, the job fails with the no-progress error and nothing is saved.
C4_MoreThan95 ==
    (kind = "embedded" /\ LoopCompleted
        /\ 2 * OkCount(batch_results) >= Len(batch_results)
        /\ 20 * JobUnchanged > 19 * Len(entries)) =>
    /\ NotPublishing
    /\ pc \in {"except", "finally", "returned"} => exc = "no_progress"
    /\ pc \in {"finally", "returned"} => outcome = "Failed"

C4_Witness ==
    /\ kind = "embedded"
    /\ pc = "returned"
    /\ exc = "no_progress"
    /\ outcome = "Failed"
    /\ JobUnchanged < Len(entries)

\* C5: for an embedded and for an external source alike, when the backend
\* returned its input unchanged for every batch, the job ends failed and
\* nothing is saved or loaded.
C5_EchoDetected ==
    (/\ LoopCompleted
     /\ \A b \in 1..Len(batch_results) : batch_results[b]
     /\ \A k \in 1..Len(entries) : TranslatedOf(k).text = entries[k].text)
    => /\ NotPublishing
       /\ pc \in {"finally", "returned"} => outcome = "Failed"

C7_NoSilentMismatch ==
    (outcome = "Done" /\ entries # <<>>) =>
        ~shape_mismatch

\* C8: every translate_batch call either returns as many texts as it was
\* given or raises, and a call whose request failed raises.
C8_TypedFailure ==
    pc \in {"primary", "fallback", "finish_batch"} =>
        \A k \in 1..Len(batch_calls) :
            /\ batch_calls[k].request_error => ~batch_calls[k].ok
            /\ batch_calls[k].ok => batch_calls[k].len = Len(texts)

\* C9: the first call of a batch goes to the primary translator; fallback
\* services are called only after every earlier call of the batch failed,
\* in the configured order without the configured service; a batch a
\* fallback translated counts as successful and resets the counter.
C9_FallbackOrder ==
    pc \in {"primary", "fallback", "finish_batch"} =>
        /\ pc # "primary" => Len(batch_calls) >= 1
        /\ Len(batch_calls) <= 1 + Len(EligibleFallbacks)
        /\ \A k \in 1..Len(batch_calls) :
              /\ k = 1 => /\ batch_calls[k].role = "primary"
                          /\ batch_calls[k].service = actual_service
              /\ k > 1 => /\ batch_calls[k].role = "fallback"
                          /\ batch_calls[k].service = EligibleFallbacks[k - 1]
              /\ k < Len(batch_calls) => ~batch_calls[k].ok
        /\ pc \in {"primary", "fallback"} => ~BatchOk
        /\ (pc = "finish_batch" /\ BatchOk) =>
              /\ consecutive_failures = 0
              /\ successful_batches = OkCount(batch_results) + 1

C9_Witness ==
    /\ pc = "finish_batch"
    /\ Len(batch_calls) = 3
    /\ batch_calls[3].ok
    /\ batch_calls[3].role = "fallback"
    /\ TrailingFailures(batch_results) > 0

\* C10: once the user has cancelled a job that has not failed, the job does
\* not complete: it ends Cancelled, nothing is loaded, and no cache file,
\* metadata sidecar or alongside-video file is written.
C10_CancelledNotFailed ==
    (dialog_canceled /\ exc = "none") =>
        /\ outcome \in {"none", "Cancelled"}
        /\ pc = "returned" => outcome = "Cancelled"
        /\ loaded = "none"
        /\ files.cache # "complete"
        /\ files.meta # "complete"
        /\ files.alongside # "complete"

\* C11: the cache path and the alongside-video path never hold an
\* incomplete file, and a job that does not end Done has written no file
\* at a final destination.
C11_AtomicPublication ==
    /\ files.cache # "partial"
    /\ files.alongside # "partial"
    /\ (pc = "returned" /\ outcome # "Done") =>
          /\ files.cache # "complete"
          /\ files.alongside # "complete"

\* The cache holds an entry get_cached_subtitle accepts.
ValidEntry ==
    /\ cache_translations
    /\ files.cache # "absent"
    /\ files.meta \in {"earlier", "complete"}
    /\ files.age <= cache_days

\* C12: a job runs (extracts, translates, saves) only when the cache holds
\* no valid entry (caching on, cache file and readable sidecar present, age
\* at most cache_days), and what the player loads is either the valid entry
\* or the file this job translated and saved, never a stale cache file.
C12_CacheValidity ==
    /\ get_cached_subtitle <=> ValidEntry
    /\ pc \in {"ffmpeg", "start", "parse", "loop", "primary", "fallback",
               "finish_batch", "success_rate", "format", "save"} =>
          ~ValidEntry
    /\ (pc = "finally" /\ outcome = "Done" /\ entries = <<>>) =>
          (ValidEntry /\ loaded = "cache")
    /\ loaded # "none" =>
          \/ ValidEntry /\ entries = <<>> /\ files.meta = "earlier"
          \/ entries # <<>> /\ files.cache = "complete"
                /\ files.meta = "complete"

\* An expired entry is passed over: the job runs as on a cache miss.
C12_Witness ==
    /\ pc = "loop"
    /\ cache_translations
    /\ files.cache = "earlier"
    /\ files.meta = "earlier"
    /\ files.age = cache_days + 1

\* The target language is among the embedded tracks or the files next to
\* the video.
TargetAvailable ==
    target_in_embedded \/ find_external_subtitle_for_language(target_language)

\* C13: when a subtitle in the target language exists, embedded or next to
\* the video, no job is started (nothing is extracted, translated or
\* written) and, once check_and_translate_subtitles has returned, that
\* subtitle is loaded into the player.
C13_ShortCircuit ==
    TargetAvailable =>
        /\ pc \in {"idle", "returned"}
        /\ kind = "none"
        /\ batch_results = <<>>
        /\ files.cache = "absent"
        /\ pc = "returned" => loaded = "external_target"

\* C20: the source track check_and_translate_subtitles settles on is the
\* first track matching the configured source language (unless the setting
\* is 'auto'), else the first track matching English, else the first
\* track; there is none only when the track list is empty.
C20_FindSource ==
    LET n == Len(available_subs)
        r == find_source_subtitle(available_subs)
        IsSrc(k) == source_language # "auto"
                      /\ Norm(available_subs[k]) = Norm(source_language)
        IsEng(k) == Norm(available_subs[k]) = "en"
    IN  /\ r \in 0..n
        /\ r = 0 <=> n = 0
        /\ (\E k \in 1..n : IsSrc(k)) =>
              (IsSrc(r) /\ \A j \in 1..(r - 1) : ~IsSrc(j))
        /\ (~(\E k \in 1..n : IsSrc(k)) /\ (\E k \in 1..n : IsEng(k))) =>
              (IsEng(r) /\ \A j \in 1..(r - 1) : ~IsEng(j))
        /\ (n > 0 /\ ~(\E k \in 1..n : IsSrc(k) \/ IsEng(k))) => r = 1
        /\ kind = "embedded" => r # 0

\* An embedded job on a video whose first track is neither in the source
\* language nor English, and whose second track is English.
C20_Witness ==
    /\ kind = "embedded"
    /\ pc = "returned"
    /\ Len(available_subs) = 2
    /\ find_source_subtitle(available_subs) = 2
    /\ source_language = "auto"

\* C14: the entries serialized by a job that ends Done are ordered by
\* start time ascending and carry the indices 1, 2, ..., n in that order.
C14_Ordered ==
    (outcome = "Done" /\ entries # <<>>) =>
        /\ \A k \in 1..Len(output_content) : output_content[k][1] = k
        /\ \A k \in 1..(Len(output_content) - 1) :
              output_content[k][2] <= output_content[k + 1][2]

\* C15: no fallback service is called for a batch before the primary
\* translator has been called again after its first failure.
C15_PrimaryRetried ==
    \A k \in 1..Len(batch_calls) :
        batch_calls[k].role = "fallback" =>
            Cardinality({j \in 1..(k - 1) :
                            batch_calls[j].role = "primary"}) >= 2

\* C16: when a job starts, the failure count of every fallback service is 0.
C16_CountersPerJob ==
    pc = "idle" =>
        \A k \in {"embedded", "external"} : \A svc \in Services :
            _fallback_fail_counts[k][svc] = 0

\* ------------------------------------------------------ progress events
\* The keys of TranslationProgress.stages in their order.
StageOrder ==
    <<"init", "extract", "parse", "translate", "format", "save", "complete">>

\* The place of a stage in StageOrder.
StageRank(stage) == CHOOSE k \in 1..Len(StageOrder) : StageOrder[k] = stage

\* C17: within one job the stage of the progress only moves forward in the
\* order init, extract, parse, translate, format, save, complete; the percent
\* passed to the dialog never decreases and lies in 0..100, and while the
\* stage is translate the percent shown lies in 30..90.
C17_ProgressOrdered ==
    /\ [](/\ progress_percent \in 0..100
          /\ (dialog # "none" /\ progress_stage = "translate")
                => progress_percent \in 30..90)
    /\ [][job' = job =>
            /\ StageRank(progress_stage') >= StageRank(progress_stage)
            /\ progress_percent' >= progress_percent]_vars

\* A job in the translate stage whose dialog shows the share of a batch that
\* is neither the first percent of the stage nor the last.
C17_Witness ==
    /\ pc = "primary"
    /\ dialog = "open"
    /\ progress_stage = "translate"
    /\ progress_percent > 30
    /\ progress_percent < 90

\* ------------------------------------------------------ the error journal
\* The error logs load_errors finds: none, or one that earlier jobs filled
\* up to its limit or one record short of it.
LoadedJournals == {[k \in 1..n |-> "earlier"] : n \in {0, 99, 100}}

\* One job of a player whose ErrorReporter loaded an error log.
InitJournal ==
    /\ translation_service = "deepl"
    /\ api_key = TRUE
    /\ batch_size = 20
    /\ fallback_services = <<"openai", "lingva">>
    /\ show_notification = TRUE
    /\ cache_translations = TRUE
    /\ cache_days = 1
    /\ files = [cache |-> "absent", meta |-> "absent", alongside |-> "absent",
                age |-> 0, writes |-> "ok"]
    /\ available_subs = <<>>
    /\ external_subs = <<>>
    /\ source_language = "auto"
    /\ journal \in LoadedJournals
    /\ reported = journal
    /\ playback = "playing"
    /\ parser_input = <<>>
    /\ mkv_file = NoFile
    /\ _file = Opened(TRUE)
    /\ InitJob

SpecJournal == InitJournal /\ [][Next]_vars

\* The last n elements of a sequence, all of them when it has fewer.
Last(seq, n) ==
    IF Len(seq) > n THEN SubSeq(seq, Len(seq) - n + 1, Len(seq)) ELSE seq

\* C18: the error journal holds at most 100 records, and they are the most
\* recently reported ones in the order they were reported.
C18_JournalBounded ==
    /\ Len(journal) <= 100
    /\ journal = Last(reported, 100)

\* A job reported records into a full journal: earlier records are gone and
\* the journal ends with the records of the job.
C18_Witness ==
    /\ Len(reported) > 100
    /\ Len(journal) = 100
    /\ journal[100] = "translation"
    /\ journal[99] = "api"

\* The job is at its last batch, which failed on every service with a
\* journal write that raised, after enough successful batches for the
\* batch to be filled with the original texts and the job to pass the
\* checks after the loop.
ToleratedBatchJournalFailure ==
    /\ exc = "journal"
    /\ failed_batches > 0
    /\ ~ShouldAbort(consecutive_failures)
    /\ MayUseOriginal(successful_batches)
    /\ i + batch_size >= Len(entries)
    /\ ~SuccessRateTooLow(successful_batches, total_batches)
    /\ kind = "embedded" =>
          ~NoProgress(entries, translated_entries \o MergeBatch(batch, texts))

\* C19: a failure of the journal write in report_error does not change the
\* outcome of a job: a job whose failed batch is tolerated does not end
\* Failed because the journal write for that batch raised.
C19_JournalBestEffort ==
    ToleratedBatchJournalFailure => outcome # "Failed"

\* ------------------------------------------------------ the end of a job
\* C28: translation_in_progress is False whenever the job function has
\* returned, whatever the exit path was.
C28_FlagCleared == pc = "returned" => ~translation_in_progress

\* A job that failed in the batch loop has returned with the flag cleared.
C28_Witness ==
    /\ pc = "returned"
    /\ outcome = "Failed"
    /\ exc = "aborted"
    /\ ~translation_in_progress

\* C30: a job that opened the progress dialog has closed it when it
\* returns.
C30_DialogClosed == pc = "returned" => dialog # "open"

\* ------------------------------------------------------ pause and resume
\* The user pauses or resumes playback before or during a job.
UserPause ==
    /\ pc # "returned"
    /\ isPlaying
    /\ playback' = pause(playback)
    /\ UNCHANGED <<settings, media, library, was_playing, pause_toggles, player,
                   translation_in_progress, host, sink, pc, counters, locals,
                   observed, outcome>>

\* The user stops playback before or during a job.
UserStop ==
    /\ pc # "returned"
    /\ isPlaying
    /\ playback' = "stopped"
    /\ UNCHANGED <<settings, media, library, was_playing, pause_toggles, player,
                   translation_in_progress, host, sink, pc, counters, locals,
                   observed, outcome>>

NextPlayback == Next \/ UserPause \/ UserStop

\* One job of a player with the DeepL service on a video that is played.
InitPlayback ==
    /\ translation_service = "deepl"
    /\ api_key = TRUE
    /\ batch_size = 20
    /\ fallback_services = <<"openai", "lingva">>
    /\ show_notification = TRUE
    /\ cache_translations = TRUE
    /\ cache_days = 1
    /\ files = [cache |-> "absent", meta |-> "absent", alongside |-> "absent",
                age |-> 0, writes |-> "ok"]
    /\ available_subs = <<>>
    /\ external_subs = <<>>
    /\ source_language = "auto"
    /\ playback = "playing"
    /\ parser_input = <<>>
    /\ mkv_file = NoFile
    /\ _file = Opened(TRUE)
    /\ InitIdle

SpecPlayback == InitPlayback /\ [][NextPlayback]_vars

\* C29: a job toggles pause at most twice, the first time on a playing
\* player (it pauses; a job that does not pause never toggles) and the
\* second time on a paused one (it resumes), and playback the job paused is
\* not left paused when the job returns.
C29_PauseResume ==
    /\ Len(pause_toggles) <= 2
    /\ pause_toggles # <<>> => pause_toggles[1] = "playing"
    /\ Len(pause_toggles) = 2 => pause_toggles[2] = "paused"
    /\ (pc = "returned" /\ pause_toggles # <<>>) => playback # "paused"

\* ------------------------------------------------------ playback starts
\* onAVStarted up to xbmc.sleep(2000): nothing when the addon is disabled.
onAVStarted(n, enabled) ==
    /\ invocations[n] = "none"
    /\ invocations' = [invocations EXCEPT ![n] =
                          IF enabled THEN "sleep" ELSE "returned"]
    /\ UNCHANGED <<settings, media, library, pausing, job, _fallback_fail_counts,
                   translation_in_progress, host, sink, pc, counters, locals,
                   observed, outcome>>

\* After the sleep: `if self.isPlaying(): self.check_and_translate_subtitles()`
\* and in it `if self.translation_in_progress: return`.
AfterSleep(n, playing) ==
    /\ invocations[n] = "sleep"
    /\ invocations' = [invocations EXCEPT ![n] =
                          IF playing /\ ~translation_in_progress
                          THEN "select" ELSE "returned"]
    /\ UNCHANGED <<settings, media, library, pausing, job, _fallback_fail_counts,
                   translation_in_progress, host, sink, pc, counters, locals,
                   observed, outcome>>

\* The rest of check_and_translate_subtitles: the source and confirmation
\* dialogs, and when a source is settled the call of translate_subtitle or
\* translate_external_subtitle, which sets translation_in_progress.
SelectSource(n, proceed) ==
    /\ invocations[n] = "select"
    /\ invocations' = [invocations EXCEPT ![n] =
                          IF proceed THEN "job" ELSE "returned"]
    /\ translation_in_progress' = (proceed \/ translation_in_progress)
    /\ UNCHANGED <<settings, media, library, pausing, job, _fallback_fail_counts, host,
                   sink, pc, counters, locals, observed, outcome>>

\* The job function of an invocation returns through its finally clause.
JobReturns(n) ==
    /\ invocations[n] = "job"
    /\ invocations' = [invocations EXCEPT ![n] = "returned"]
    /\ translation_in_progress' = FALSE
    /\ UNCHANGED <<settings, media, library, pausing, job, _fallback_fail_counts, host,
                   sink, pc, counters, locals, observed, outcome>>

NextStart ==
    \E n \in 1..MaxInvocations :
        \/ \E enabled \in BOOLEAN : onAVStarted(n, enabled)
        \/ \E playing \in BOOLEAN : AfterSleep(n, playing)
        \/ \E proceed \in BOOLEAN : SelectSource(n, proceed)
        \/ JobReturns(n)

\* A player on which playback starts several times.
InitStart ==
    /\ translation_service = "deepl"
    /\ api_key = TRUE
    /\ batch_size = 20
    /\ fallback_services = <<"openai", "lingva">>
    /\ show_notification = TRUE
    /\ cache_translations = TRUE
    /\ cache_days = 1
    /\ files = [cache |-> "absent", meta |-> "absent", alongside |-> "absent",
                age |-> 0, writes |-> "ok"]
    /\ available_subs = <<>>
    /\ external_subs = <<>>
    /\ source_language = "auto"
    /\ playback = "playing"
    /\ parser_input = <<>>
    /\ mkv_file = NoFile
    /\ _file = Opened(TRUE)
    /\ InitIdle

SpecStart == InitStart /\ [][NextStart]_vars

\* The invocations that are inside a job function.
RunningJobs == {n \in 1..MaxInvocations : invocations[n] = "job"}

\* C27: at most one translation job runs per player at any time.
C27_OneJob == Cardinality(RunningJobs) <= 1

\* ------------------------------------------------------ SubtitleParser
\* A text is a sequence of lines and a line a sequence of words; a subtitle
\* file is a sequence of lines: an index line, a timing line, a text line,
\* a blank line or the WEBVTT header.
\* Largest number of entries of a list given to generate.
MaxCues == 2

\* _format_srt_time / _format_vtt_time: the fields h, m, s, ms of the line.
_format_srt_time(ms) ==
    <<ms \div 3600000, (ms % 3600000) \div 60000, (ms % 60000) \div 1000,
      ms % 1000>>

\* _parse_srt_time / _parse_vtt_time
_parse_srt_time(f) == ((f[1] * 3600) + (f[2] * 60) + f[3]) * 1000 + f[4]

RECURSIVE Flatten(_)
\* The words of a sequence of lines, in order (text.split()).
Flatten(ls) == IF ls = <<>> THEN <<>> ELSE Head(ls) \o Flatten(Tail(ls))

\* _clean_text: ' '.join(text.split()) puts every word on one line.
_clean_text(text) == <<Flatten(text)>>

\* The lines `output` holds for one entry: index, timing, text, ''.
TimingLine(e) ==
    [k |-> "timing", start |-> _format_srt_time(e.start),
     end |-> _format_srt_time(e.end)]

TextLines(e) == [j \in 1..Len(e.text) |-> [k |-> "text", words |-> e.text[j]]]

RECURSIVE _generate_srt(_)
_generate_srt(es) ==
    IF es = <<>> THEN <<>>
    ELSE <<[k |-> "index", v |-> Head(es).index], TimingLine(Head(es))>>
         \o TextLines(Head(es)) \o <<[k |-> "blank"]>>
         \o _generate_srt(Tail(es))

RECURSIVE CueLines(_)
CueLines(es) ==
    IF es = <<>> THEN <<>>
    ELSE <<TimingLine(Head(es))>> \o TextLines(Head(es))
         \o <<[k |-> "blank"]>> \o CueLines(Tail(es))

\* _generate_vtt: the header, a blank line and the cues without index.
_generate_vtt(es) == <<[k |-> "header"], [k |-> "blank"]>> \o CueLines(es)

RECURSIVE Blocks(_, _)
\* The blocks of non-blank lines of a file (cur: the block being read).
Blocks(ls, cur) ==
    IF ls = <<>> THEN (IF cur = <<>> THEN <<>> ELSE <<cur>>)
    ELSE IF Head(ls).k = "blank"
         THEN (IF cur = <<>> THEN <<>> ELSE <<cur>>) \o Blocks(Tail(ls), <<>>)
         ELSE Blocks(Tail(ls), Append(cur, Head(ls)))

\* The words of the lines of a block from line `from` on.
BlockText(b, from) ==
    [j \in 1..(Len(b) - from + 1) |->
        IF b[j + from - 1].k = "text" THEN b[j + from - 1].words ELSE <<>>]

RECURSIVE ParseSrtBlocks(_)
ParseSrtBlocks(bs) ==
    IF bs = <<>> THEN <<>>
    ELSE LET b == Head(bs) IN
         (IF Len(b) < 3 \/ b[1].k # "index" \/ b[2].k # "timing" THEN <<>>
          ELSE <<[index |-> b[1].v,
                  start |-> _parse_srt_time(b[2].start),
                  end |-> _parse_srt_time(b[2].end),
                  text |-> _clean_text(BlockText(b, 3))]>>)
         \o ParseSrtBlocks(Tail(bs))

\* _parse_srt: blocks split at blank lines; a block needs an index line, a
\* timing line and a third line.
_parse_srt(content) == ParseSrtBlocks(Blocks(content, <<>>))

RECURSIVE DropHeader(_)
\* lines[start_idx:], start_idx the first line with '-->'
DropHeader(ls) ==
    IF ls = <<>> THEN <<>>
    ELSE IF Head(ls).k = "timing" THEN ls ELSE DropHeader(Tail(ls))

RECURSIVE ParseVttBlocks(_, _)
\* _parse_vtt_block on every block; the index is the place in the result.
ParseVttBlocks(bs, n) ==
    IF bs = <<>> THEN <<>>
    ELSE LET b == Head(bs) IN
         IF b[1].k # "timing" THEN ParseVttBlocks(Tail(bs), n)
         ELSE <<[index |-> n + 1,
                 start |-> _parse_srt_time(b[1].start),
                 end |-> _parse_srt_time(b[1].end),
                 text |-> _clean_text(BlockText(b, 2))]>>
              \o ParseVttBlocks(Tail(bs), n + 1)

_parse_vtt(content) == ParseVttBlocks(Blocks(DropHeader(content), <<>>), 0)

\* SubtitleParser.parse(SubtitleParser.generate(entries, fmt), fmt)
parse_generate(es, fmt) ==
    IF fmt = "vtt" THEN _parse_vtt(_generate_vtt(es))
    ELSE _parse_srt(_generate_srt(es))

\* The texts of entries: one line, two lines, one line of two words.
Texts == {<<<<"a">>>>, <<<<"a">>, <<"b">>>>, <<<<"a", "b">>>>}

\* The entries at place n of a list: numbered, start_ms <= end_ms.
EntriesAt(n) ==
    {[index |-> n, start |-> st, end |-> en, text |-> t] :
        st \in {0, 1500}, en \in {1500, 3661001}, t \in Texts}

\* The entry lists of at most MaxCues entries.
EntryLists ==
    UNION {{es \in [1..n -> UNION {EntriesAt(k) : k \in 1..n}] :
               \A k \in 1..n : es[k] \in EntriesAt(k)} : n \in 0..MaxCues}

\* generate followed by parse, in one format.
RoundTrip(fmt) ==
    /\ parser_format = "none"
    /\ parser_format' = fmt
    /\ parser_output' = parse_generate(parser_input, fmt)
    /\ UNCHANGED <<settings, media, parser_input, mkv, reading, pausing, player,
                   translation_in_progress, host, sink, pc, counters, locals,
                   observed, outcome>>

NextParser == \E fmt \in {"srt", "vtt"} : RoundTrip(fmt)

\* A parser and an entry list.
InitParser ==
    /\ translation_service = "deepl"
    /\ api_key = TRUE
    /\ batch_size = 20
    /\ fallback_services = <<"openai", "lingva">>
    /\ show_notification = TRUE
    /\ cache_translations = TRUE
    /\ cache_days = 1
    /\ files = [cache |-> "absent", meta |-> "absent", alongside |-> "absent",
                age |-> 0, writes |-> "ok"]
    /\ available_subs = <<>>
    /\ external_subs = <<>>
    /\ source_language = "auto"
    /\ playback = "stopped"
    /\ parser_input \in EntryLists
    /\ mkv_file = NoFile
    /\ _file = Opened(TRUE)
    /\ InitIdle

SpecParser == InitParser /\ [][NextParser]_vars

\* C21: for SRT and for VTT, parse(generate(X)) = X; line breaks inside an
\* entry's text are kept.
C21_RoundTrip == parser_format # "none" => parser_output = parser_input

\* ------------------------------------------------------ MKVStreamingParser
\* A file is the sequence of the children of its Segment after the headers
\* (an offset is a place in this sequence), the cue points of its Cues
\* element, the TimecodeScale, the format of the subtitle track and the
\* output format asked for. The subtitle track is "subtitle"; the blocks of
\* "video" are the other tracks.
\* Largest number of Segment children after the headers.
MaxElements == 3

\* The child of the Segment at offset k, by kind: a Cluster with a video
\* SimpleBlock and a subtitle SimpleBlock; a Cluster with a subtitle
\* BlockGroup that has a BlockDuration; a Cluster with video only; a Cluster
\* of unknown size with a subtitle SimpleBlock; another element.
ElementAt(k, shape) ==
    CASE shape = "simple" ->
            [id |-> "Cluster", size |-> "known", timestamp |-> 100 * k,
             children |->
                <<[id |-> "SimpleBlock", track |-> "video", ts_offset |-> 0,
                   duration |-> 0, data |-> <<k, "v">>],
                  [id |-> "SimpleBlock", track |-> "subtitle",
                   ts_offset |-> 4, duration |-> 0, data |-> <<k, "s">>]>>]
      [] shape = "group" ->
            [id |-> "Cluster", size |-> "known", timestamp |-> 100 * k,
             children |->
                <<[id |-> "BlockGroup", track |-> "subtitle",
                   ts_offset |-> 25, duration |-> 150,
                   data |-> <<k, "g">>]>>]
      [] shape = "video" ->
            [id |-> "Cluster", size |-> "known", timestamp |-> 100 * k,
             children |->
                <<[id |-> "SimpleBlock", track |-> "video", ts_offset |-> 0,
                   duration |-> 0, data |-> <<k, "v">>]>>]
      [] shape = "unknown" ->
            [id |-> "Cluster", size |-> "unknown", timestamp |-> 100 * k,
             children |->
                <<[id |-> "SimpleBlock", track |-> "subtitle",
                   ts_offset |-> 4, duration |-> 0, data |-> <<k, "u">>]>>]
      [] OTHER ->
            [id |-> "Tags", size |-> "known", timestamp |-> 0,
             children |-> <<>>]

ElementKinds == {"simple", "group", "video", "unknown", "other"}

\* The Segments of at most MaxElements children.
Segments ==
    UNION {{[k \in 1..n |-> ElementAt(k, kinds[k])] :
               kinds \in [1..n -> ElementKinds]} : n \in 1..MaxElements}

\* The cluster at offset k has a block of the track.
HasBlock(elements, k, track) ==
    /\ elements[k].id = "Cluster"
    /\ \E j \in 1..Len(elements[k].children) :
          elements[k].children[j].track = track

RECURSIVE CuePoints(_, _, _)
\* The cue points (cue_time, cue_track, cluster_pos) of the tracks in
\* `tracks`: one for every cluster from offset k on with a block of the track.
CuePoints(elements, k, tracks) ==
    IF k > Len(elements) THEN <<>>
    ELSE (IF "video" \in tracks /\ HasBlock(elements, k, "video")
          THEN <<<<elements[k].timestamp, "video", k>>>> ELSE <<>>)
         \o (IF "subtitle" \in tracks /\ HasBlock(elements, k, "subtitle")
             THEN <<<<elements[k].timestamp, "subtitle", k>>>> ELSE <<>>)
         \o CuePoints(elements, k + 1, tracks)

\* The files: every Segment without Cues, with cue points of the video track
\* only, and with cue points of both tracks.
MkvFiles ==
    {[elements |-> es, cues |-> CuePoints(es, 1, tracks),
      timecode_scale |-> sc, format |-> f[1], output_format |-> f[2]] :
        es \in Segments, tracks \in {{}, {"video"}, {"video", "subtitle"}},
        sc \in {1000000, 500000},
        f \in {<<"srt", "srt">>, <<"ass", "ass">>, <<"ass", "srt">>}}

\* _process_block: the SubtitleBlock of a block of the target track, with
\* the cluster timestamp, offset and duration it was computed from.
_process_block(b, cluster_timestamp, target_track_num, duration, scale) ==
    IF b.track # target_track_num THEN <<>>
    ELSE <<[track_number |-> b.track,
            timestamp_ms |->
               ((cluster_timestamp + b.ts_offset) * scale) \div 1000000,
            duration_ms |->
               IF duration # 0 THEN (duration * scale) \div 1000000 ELSE 0,
            data |-> b.data,
            cluster_timestamp |-> cluster_timestamp,
            ts_offset |-> b.ts_offset,
            block_duration |-> duration]>>

RECURSIVE ChildBlocks(_, _, _, _)
\* The loop of _parse_cluster over the children of a cluster.
ChildBlocks(children, cluster_timestamp, target_track_num, scale) ==
    IF children = <<>> THEN <<>>
    ELSE LET ch == Head(children) IN
         (IF ch.id = "SimpleBlock"
          THEN _process_block(ch, cluster_timestamp, target_track_num, 0,
                              scale)
          ELSE IF ch.id = "BlockGroup"
          THEN _process_block(ch, cluster_timestamp, target_track_num,
                              ch.duration, scale)
          ELSE <<>>)
         \o ChildBlocks(Tail(children), cluster_timestamp, target_track_num,
                        scale)

\* _parse_cluster: the blocks of the target track in the cluster.
_parse_cluster(c, target_track_num, scale) ==
    ChildBlocks(c.children, c.timestamp, target_track_num, scale)

RECURSIVE _scan_clusters_linear(_, _, _, _)
\* _scan_clusters_linear from offset k on. The size read for a cluster of
\* unknown size is larger than the file: _parse_cluster reads its blocks and
\* then skips whatever follows as a child, and the seek to data_start +
\* elem_size after it ends the scan.
_scan_clusters_linear(elements, k, target_track_num, scale) ==
    IF k > Len(elements) THEN <<>>
    ELSE IF elements[k].id = "Cluster"
         THEN _parse_cluster(elements[k], target_track_num, scale)
              \o (IF elements[k].size = "unknown" THEN <<>>
                  ELSE _scan_clusters_linear(elements, k + 1,
                                             target_track_num, scale))
         ELSE _scan_clusters_linear(elements, k + 1, target_track_num, scale)

RECURSIVE SortedOffsets(_)
\* sorted(cluster offsets)
SortedOffsets(S) ==
    IF S = {} THEN <<>>
    ELSE LET m == CHOOSE x \in S : \A y \in S : x <= y
         IN  <<m>> \o SortedOffsets(S \ {m})

RECURSIVE SeekClusters(_, _, _, _)
\* `for offset in cluster_offsets`: seek, and parse when a Cluster is there.
SeekClusters(elements, offsets, target_track_num, scale) ==
    IF offsets = <<>> THEN <<>>
    ELSE (IF elements[Head(offsets)].id = "Cluster"
          THEN _parse_cluster(elements[Head(offsets)], target_track_num,
                              scale)
          ELSE <<>>)
         \o SeekClusters(elements, Tail(offsets), target_track_num, scale)

\* _extract_from_clusters: with cue points, the clusters the cue points of
\* the target track name, or those any cue point names when there is none
\* for the target track; without cue points, the linear scan.
_extract_from_clusters(file, target_track_num) ==
    LET sub_clusters == {file.cues[c][3] : c \in
                           {c \in 1..Len(file.cues) :
                               file.cues[c][2] = target_track_num}}
        all_clusters == {file.cues[c][3] : c \in 1..Len(file.cues)}
    IN  IF file.cues # <<>>
        THEN SeekClusters(file.elements,
                          SortedOffsets(IF sub_clusters # {} THEN sub_clusters
                                        ELSE all_clusters),
                          target_track_num, file.timecode_scale)
        ELSE _scan_clusters_linear(file.elements, 1, target_track_num,
                                   file.timecode_scale)

RECURSIVE SortBlocks(_)
\* self._subtitle_blocks.sort(key=lambda b: b.timestamp_ms), a stable sort
SortBlocks(bs) ==
    IF bs = <<>> THEN <<>>
    ELSE LET rest == SortBlocks(Tail(bs))
             b == Head(bs)
             before == Cardinality({j \in 1..Len(rest) :
                                      rest[j].timestamp_ms < b.timestamp_ms})
         IN  SubSeq(rest, 1, before) \o <<b>>
             \o SubSeq(rest, before + 1, Len(rest))

\* MKVStreamingParser._format_srt_time: the fields h, m, s, ms.
mkv_format_srt_time(t) ==
    LET ms == IF t < 0 THEN 0 ELSE t
    IN  <<ms \div 3600000, (ms % 3600000) \div 60000, (ms % 60000) \div 1000,
          ms % 1000>>

\* MKVStreamingParser._format_ass_time: the fields h, m, s, cs.
_format_ass_time(t) ==
    LET ms == IF t < 0 THEN 0 ELSE t
    IN  <<ms \div 3600000, (ms % 3600000) \div 60000, (ms % 60000) \div 1000,
          (ms % 1000) \div 10>>

\* _reassemble_srt: the end is start + duration, else the start of the next
\* block, else start + 3000.
_reassemble_srt(blocks, format) ==
    [n \in 1..Len(blocks) |->
        [idx |-> n,
         start |-> mkv_format_srt_time(blocks[n].timestamp_ms),
         end |-> mkv_format_srt_time(
                    IF blocks[n].duration_ms > 0
                    THEN blocks[n].timestamp_ms + blocks[n].duration_ms
                    ELSE IF n + 1 <= Len(blocks)
                    THEN blocks[n + 1].timestamp_ms
                    ELSE blocks[n].timestamp_ms + 3000),
         text |-> IF format = "ass" THEN <<"plain", blocks[n].data>>
                  ELSE <<"text", blocks[n].data>>]]

\* _reassemble_ass: the end is start + duration, else start + 3000.
_reassemble_ass(blocks) ==
    [n \in 1..Len(blocks) |->
        [idx |-> 0,
         start |-> _format_ass_time(blocks[n].timestamp_ms),
         end |-> _format_ass_time(
                    IF blocks[n].duration_ms > 0
                    THEN blocks[n].timestamp_ms + blocks[n].duration_ms
                    ELSE blocks[n].timestamp_ms + 3000),
         text |-> <<"dialogue", blocks[n].data>>]]

\* _reassemble
_reassemble(blocks, format, output_format) ==
    IF format = "ass" /\ output_format = "ass" THEN _reassemble_ass(blocks)
    ELSE _reassemble_srt(blocks, format)

\* extract_subtitles, steps 1 to 6: the blocks of the target track, sorted.
ExtractBlocks ==
    /\ mkv_pc = "none"
    /\ _subtitle_blocks' =
          SortBlocks(_extract_from_clusters(mkv_file, "subtitle"))
    /\ mkv_pc' = IF _subtitle_blocks' = <<>> THEN "returned" ELSE "blocks"
    /\ UNCHANGED <<settings, media, parsing, mkv_file, mkv_output, reading,
                   pausing, player, translation_in_progress, host, sink, pc, counters,
                   locals, observed, outcome>>

\* extract_subtitles, step 7: the content it returns.
Reassemble ==
    /\ mkv_pc = "blocks"
    /\ mkv_output' = _reassemble(_subtitle_blocks, mkv_file.format,
                                 mkv_file.output_format)
    /\ mkv_pc' = "returned"
    /\ UNCHANGED <<settings, media, parsing, mkv_file, _subtitle_blocks,
                   reading, pausing, player, translation_in_progress, host, sink, pc,
                   counters, locals, observed, outcome>>

NextMkv == ExtractBlocks \/ Reassemble

\* A parser and a file.
InitMkv ==
    /\ translation_service = "deepl"
    /\ api_key = TRUE
    /\ batch_size = 20
    /\ fallback_services = <<"openai", "lingva">>
    /\ show_notification = TRUE
    /\ cache_translations = TRUE
    /\ cache_days = 1
    /\ files = [cache |-> "absent", meta |-> "absent", alongside |-> "absent",
                age |-> 0, writes |-> "ok"]
    /\ available_subs = <<>>
    /\ external_subs = <<>>
    /\ source_language = "auto"
    /\ playback = "stopped"
    /\ parser_input = <<>>
    /\ mkv_file \in MkvFiles
    /\ _file = Opened(TRUE)
    /\ InitIdle

SpecMkv == InitMkv /\ [][NextMkv]_vars

RECURSIVE AllTargetBlocks(_, _, _, _)
\* The blocks of the target track of every cluster from offset k on, in file
\* order.
AllTargetBlocks(elements, k, target_track_num, scale) ==
    IF k > Len(elements) THEN <<>>
    ELSE (IF elements[k].id = "Cluster"
          THEN _parse_cluster(elements[k], target_track_num, scale)
          ELSE <<>>)
         \o AllTargetBlocks(elements, k + 1, target_track_num, scale)

\* extract_subtitles: the content returned for a file, empty for None.
extract_subtitles(file) ==
    LET blocks == SortBlocks(_extract_from_clusters(file, "subtitle"))
    IN  IF blocks = <<>> THEN <<>>
        ELSE _reassemble(blocks, file.format, file.output_format)

\* The start of a block as the specification computes it.
StartMs(b) ==
    ((b.cluster_timestamp + b.ts_offset) * mkv_file.timecode_scale)
        \div 1000000

\* The end of the n-th block as the specification computes it.
EndMs(blocks, n) ==
    IF blocks[n].block_duration # 0
    THEN StartMs(blocks[n])
         + (blocks[n].block_duration * mkv_file.timecode_scale) \div 1000000
    ELSE IF n < Len(blocks) THEN StartMs(blocks[n + 1])
    ELSE StartMs(blocks[n]) + 3000

\* The time format of the returned content.
OutputTime(t) ==
    IF mkv_file.format = "ass" /\ mkv_file.output_format = "ass"
    THEN _format_ass_time(t) ELSE mkv_format_srt_time(t)

\* C22: every entry of the returned content starts at (cluster timestamp +
\* block offset) * timecode scale / 10^6 ms and ends at start + BlockDuration
\* when the block has one, else at the start of the next block, else at
\* start + 3000 ms, in SRT and in ASS alike, and never ends before it starts.
C22_BlockTiming ==
    (mkv_pc = "returned" /\ mkv_output # <<>>) =>
        /\ Len(mkv_output) = Len(_subtitle_blocks)
        /\ \A n \in 1..Len(mkv_output) :
              /\ mkv_output[n].start = OutputTime(StartMs(_subtitle_blocks[n]))
              /\ mkv_output[n].end = OutputTime(EndMs(_subtitle_blocks, n))
              /\ StartMs(_subtitle_blocks[n]) <= EndMs(_subtitle_blocks, n)

\* Every cluster of the file has a known size.
KnownSizes ==
    \A k \in 1..Len(mkv_file.elements) :
        mkv_file.elements[k].size = "known"

\* C23: when the file has cue points and none of them names the subtitle
\* track, every block of the subtitle track is extracted, as the linear scan
\* of the clusters would.
C23_CuesFallback ==
    (/\ mkv_pc # "none"
     /\ KnownSizes
     /\ mkv_file.cues # <<>>
     /\ \A c \in 1..Len(mkv_file.cues) : mkv_file.cues[c][2] # "subtitle") =>
        _subtitle_blocks =
            SortBlocks(AllTargetBlocks(mkv_file.elements, 1, "subtitle",
                                       mkv_file.timecode_scale))

\* C24: in the linear scan a cluster of unknown size ends at the next
\* top-level element, so the blocks of the subtitle track of the clusters
\* after it are extracted as well.
C24_UnknownSizeCluster ==
    (mkv_pc # "none" /\ mkv_file.cues = <<>>) =>
        _subtitle_blocks =
            SortBlocks(AllTargetBlocks(mkv_file.elements, 1, "subtitle",
                                       mkv_file.timecode_scale))

\* C25: when cue points name the subtitle track, the content returned is
\* the content the linear scan returns for the same file without its cue
\* points, and no block is extracted twice.
C25_CuesEquivalence ==
    (/\ mkv_pc = "returned"
     /\ \E c \in 1..Len(mkv_file.cues) : mkv_file.cues[c][2] = "subtitle") =>
        /\ mkv_output = extract_subtitles([mkv_file EXCEPT !.cues = <<>>])
        /\ \A m, n \in 1..Len(_subtitle_blocks) :
              _subtitle_blocks[m].data = _subtitle_blocks[n].data => m = n

\* --------------------------------------------------------- BufferedReader
\* The byte at offset k of the file is k. Number of bytes of the file.
FileSize == 5

\* self._file.readBytes(read_size): the bytes from the position of the file.
readBytes(f, read_size) ==
    IF f.pos >= FileSize THEN <<>>
    ELSE [k \in 1..(IF f.pos + read_size > FileSize THEN FileSize - f.pos
                     ELSE read_size) |-> f.pos + k - 1]

RECURSIVE ReadLoop(_, _, _, _, _)
\* The loop of read: take what the buffer has, then refill it from the file.
ReadLoop(r, f, remaining, result, io) ==
    LET available == Len(r._buffer) - r._buffer_pos
        chunk_size == IF available <= 0 THEN 0
                      ELSE IF available < remaining THEN available
                      ELSE remaining
        r1 == [r EXCEPT !._buffer_pos = @ + chunk_size,
                        !._file_pos = @ + chunk_size]
        result1 == result \o SubSeq(r._buffer, r._buffer_pos + 1,
                                    r._buffer_pos + chunk_size)
        remaining1 == remaining - chunk_size
        read_size == IF r1._buffer_size > remaining1 THEN r1._buffer_size
                     ELSE remaining1
        data == readBytes(f, read_size)
        f1 == [f EXCEPT !.pos = @ + Len(data)]
    IN  IF remaining <= 0
        THEN [reader |-> r, file |-> f, bytes |-> result, io |-> io]
        ELSE IF remaining1 <= 0 \/ r1._eof
        THEN [reader |-> r1, file |-> f, bytes |-> result1, io |-> io]
        ELSE IF data = <<>>
        THEN [reader |-> [r1 EXCEPT !._eof = TRUE], file |-> f1,
              bytes |-> result1, io |-> TRUE]
        ELSE ReadLoop([r1 EXCEPT !._buffer = data,
                                 !._buffer_start = r1._file_pos,
                                 !._buffer_pos = 0],
                      f1, remaining1, result1, TRUE)

\* BufferedReader.tell
tell == reader._file_pos

\* BufferedReader.seek(offset). Inside the buffer only the positions of the
\* reader move. Outside it the reader drops its buffer and takes the offset
\* before it calls self._file.seek, which raises on a file that cannot seek:
\* seek then returns False and the file stays where it was.
seek(offset) ==
    /\ IF /\ reader._buffer_start <= offset
          /\ offset < reader._buffer_start + Len(reader._buffer)
       THEN /\ reader' = [reader EXCEPT
                            !._buffer_pos = offset - reader._buffer_start,
                            !._file_pos = offset]
            /\ _file' = _file
            /\ last_call' = [op |-> "seek", tell |-> tell, arg |-> offset,
                             in_buffer |-> TRUE, io |-> FALSE, ok |-> TRUE,
                             bytes |-> <<>>]
       ELSE /\ reader' = [reader EXCEPT !._buffer = <<>>, !._buffer_pos = 0,
                                        !._buffer_start = offset,
                                        !._file_pos = offset, !._eof = FALSE]
            /\ _file' = IF _file.seekable THEN [_file EXCEPT !.pos = offset]
                        ELSE _file
            /\ last_call' = [op |-> "seek", tell |-> tell, arg |-> offset,
                             in_buffer |-> FALSE, io |-> TRUE,
                             ok |-> _file.seekable, bytes |-> <<>>]
    /\ UNCHANGED <<settings, media, parsing, mkv, pausing, player,
                   translation_in_progress, host, sink, pc, counters, locals,
                   observed, outcome>>

\* BufferedReader.read(size)
read(size) ==
    /\ LET res == ReadLoop(reader, _file, size, <<>>, FALSE) IN
         /\ reader' = res.reader
         /\ _file' = res.file
         /\ last_call' = [op |-> "read", tell |-> tell, arg |-> size,
                          in_buffer |-> FALSE, io |-> res.io, ok |-> TRUE,
                          bytes |-> res.bytes]
    /\ UNCHANGED <<settings, media, parsing, mkv, pausing, player,
                   translation_in_progress, host, sink, pc, counters, locals,
                   observed, outcome>>

NextReader ==
    \/ \E offset \in 0..FileSize : seek(offset)
    \/ \E size \in 1..FileSize : read(size)

\* A reader on a file that has just been opened and can seek or cannot.
InitReader ==
    /\ translation_service = "deepl"
    /\ api_key = TRUE
    /\ batch_size = 20
    /\ fallback_services = <<"openai", "lingva">>
    /\ show_notification = TRUE
    /\ cache_translations = TRUE
    /\ cache_days = 1
    /\ files = [cache |-> "absent", meta |-> "absent", alongside |-> "absent",
                age |-> 0, writes |-> "ok"]
    /\ available_subs = <<>>
    /\ external_subs = <<>>
    /\ source_language = "auto"
    /\ playback = "stopped"
    /\ parser_input = <<>>
    /\ mkv_file = NoFile
    /\ _file \in {Opened(seekable) : seekable \in BOOLEAN}
    /\ InitIdle

SpecReader == InitReader /\ [][NextReader]_vars

\* The bytes of the file at the offsets [from, from + n).
BytesAt(from, n) ==
    [k \in 1..(IF from >= FileSize THEN 0
               ELSE IF from + n > FileSize THEN FileSize - from
               ELSE n) |-> from + k - 1]

\* C26: read(n) returns the bytes of the file at [tell(), tell() + n), also
\* after any seek; a seek inside the buffer does no I/O; a seek outside the
\* buffer repositions the file or signals that the source cannot seek.
C26_ReaderPositions ==
    /\ last_call.op = "read" =>
          last_call.bytes = BytesAt(last_call.tell, last_call.arg)
    /\ (last_call.op = "seek" /\ last_call.in_buffer) => ~last_call.io
    /\ (last_call.op = "seek" /\ ~last_call.in_buffer) =>
          (_file.pos = last_call.arg \/ ~last_call.ok)

====
